---- MODULE Spec2Model ----
(***************************************************************************)
(* gh-wt: worktree lifecycle (creation with rollback, removal) and the     *)
(* post-creation action engine.                                            *)
(*                                                                         *)
(* The repository holds two revisions of the creation command:             *)
(*   "creator" : cmd runCreate + worktree.Creator (transaction with        *)
(*               createdDirs / createdBranches and Cleanup)                *)
(*   "direct"  : cmd createWorktree (classify, one prompt, cleanup plan,   *)
(*               worktree.Create, directory-only rollback, actions)        *)
(* Both are modelled over one world: the directories on disk, git's        *)
(* worktree records, the branches and the dirty worktrees.  git and the    *)
(* filesystem are fallible: every call either takes effect or fails.       *)
(***************************************************************************)
EXTENDS Integers, Sequences, FiniteSets, TLC

\* ------------------------------------------------------------------ bounds
MaxOther == 1       \* worktree paths / branches besides the target
MaxCmds == 3        \* commands of one action
MaxCalls == 2       \* consecutive direct calls of worktree.Remove
MaxTokens == 2      \* tokens of a template rendered on its own
MaxSegs == 5        \* path segments of a URL argument
MaxLen == 3         \* characters of a name given to SanitizeBranchName
MaxRecorded == 2    \* entries of createdDirs / createdBranches given to Cleanup
MaxListed == 2      \* worktrees git lists when Remove looks for the exact path

\* ----------------------------------------------------------- request data
TargetPath == 0     \* worktreePath of the request
TargetBranch == 0   \* info.BranchName of the request
Paths == 0..MaxOther
Branches == 0..MaxOther
Types == {"pr", "issue", "local"}

\* ------------------------------------------------------------- the world
\* base     : the worktree base directory <baseDir>/<repo> exists
\* repo     : the backing repository (bare clone or current repo) exists
\* disk     : worktree paths that exist on disk
\* reg      : paths git lists as worktrees
\* head     : <<path, branch>> for registered paths with a branch checked out
\* branches : existing local branches
\* dirty    : worktrees with uncommitted changes
WorldOK(w) ==
    /\ w.reg \subseteq Paths /\ w.disk \subseteq Paths
    /\ \A h \in w.head : h[1] \in w.reg /\ h[2] \in w.branches
    /\ \A h1, h2 \in w.head : (h1[1] = h2[1] \/ h1[2] = h2[2]) => h1 = h2
    /\ w.dirty \subseteq (w.disk \cap w.reg)
    /\ (~w.repo => w.reg = {} /\ w.branches = {})
    /\ (~w.base => w.disk = {} /\ w.reg = {})

Worlds ==
    { w \in [base : BOOLEAN, repo : BOOLEAN, disk : SUBSET Paths,
             reg : SUBSET Paths, head : SUBSET (Paths \X Branches),
             branches : SUBSET Branches, dirty : SUBSET Paths] : WorldOK(w) }

\* os.Stat(path) succeeds
Exists(w, p) == p \in w.disk

WorktreeIsRegistered(w, p) == w.repo /\ p \in w.reg

BranchExists(w, b) == w.repo /\ b \in w.branches

HasUncommittedChanges(w, p) == p \in w.dirty

\* branch checked out at a path, as a sequence: <<b>> or <<>> (empty string)
GetCurrentBranch(w, p) ==
    IF \E h \in w.head : h[1] = p
    THEN <<(CHOOSE h \in w.head : h[1] = p)[2]>>
    ELSE <<>>

CheckedOut(w, b) == \E h \in w.head : h[2] = b

\* os.RemoveAll(path): nil when the path is absent; may fail when present
RemoveAllOk(w, p, ok) == ok \/ p \notin w.disk

RemoveAllEff(w, p) ==
    [w EXCEPT !.disk = @ \ {p}, !.dirty = @ \ {p}]

\* git worktree remove [--force] path
CanWorktreeRemove(w, p, force) ==
    w.repo /\ p \in w.reg /\ (force \/ p \notin w.dirty)

WorktreeRemoveEff(w, p) ==
    [w EXCEPT !.disk = @ \ {p}, !.reg = @ \ {p}, !.dirty = @ \ {p},
              !.head = {h \in @ : h[1] # p}]

\* git worktree prune: drops the records whose directory is gone
WorktreePruneEff(w) ==
    [w EXCEPT !.reg = @ \cap w.disk,
              !.head = {h \in @ : h[1] \in w.disk}]

\* git branch -D name; bs is the name as a sequence (<<>> = empty name)
CanBranchDelete(w, bs) ==
    /\ w.repo /\ bs # <<>>
    /\ bs[1] \in w.branches /\ ~CheckedOut(w, bs[1])

BranchDeleteEff(w, bs) == [w EXCEPT !.branches = @ \ {bs[1]}]

\* git worktree add -b branch path [ref]
CanWorktreeAdd(w, b, p) ==
    w.repo /\ b \notin w.branches /\ p \notin w.disk /\ p \notin w.reg

WorktreeAddEff(w, b, p) ==
    [w EXCEPT !.base = TRUE, !.disk = @ \cup {p}, !.reg = @ \cup {p},
              !.head = @ \cup {<<p, b>>}, !.branches = @ \cup {b}]

\* git worktree add path branch (existing branch)
CanWorktreeAddFromBranch(w, b, p) ==
    /\ w.repo /\ b \in w.branches /\ ~CheckedOut(w, b)
    /\ p \notin w.disk /\ p \notin w.reg

WorktreeAddFromBranchEff(w, b, p) ==
    [w EXCEPT !.base = TRUE, !.disk = @ \cup {p}, !.reg = @ \cup {p},
              !.head = @ \cup {<<p, b>>}]

\* a failed worktree add may leave the (unregistered) directory behind
AddOutcomes == {"ok", "fail", "faildir"}

AddFailEff(w, p, o) ==
    IF o = "faildir" /\ p \notin w.disk /\ w.base
    THEN [w EXCEPT !.disk = @ \cup {p}]
    ELSE w

\* ------------------------------------------------------- worktree.Remove
\* o: outcomes of the fallible calls [list, wtrm, rmall, brdel]
RemoveOracles == [list : BOOLEAN, wtrm : BOOLEAN, rmall : BOOLEAN, brdel : BOOLEAN]

ExactPath(w, p, o) ==
    IF o.list /\ w.repo /\ p \in w.reg THEN <<p>> ELSE <<>>

RemoveWorktreeStep(w, p, force, o) ==
    IF ExactPath(w, p, o) # <<>> /\ o.wtrm /\ CanWorktreeRemove(w, p, force)
    THEN [w |-> WorktreeRemoveEff(w, p), err |-> "nil"]
    ELSE IF RemoveAllOk(w, p, o.rmall)
         THEN [w |-> RemoveAllEff(w, p), err |-> "nil"]
         ELSE [w |-> w, err |-> "removeall"]

Remove_NoDirtyCheck(w, p, bs, force, o) ==
    LET r == RemoveWorktreeStep(w, p, force, o) IN
    IF r.err # "nil" THEN r
    ELSE IF o.brdel /\ CanBranchDelete(r.w, bs)
         THEN [w |-> BranchDeleteEff(r.w, bs), err |-> "nil"]
         ELSE [w |-> r.w, err |-> "branch"]

Remove(w, p, bs, force, o) ==
    IF ~force /\ HasUncommittedChanges(w, p)
    THEN [w |-> w, err |-> "dirty"]
    ELSE LET r == RemoveWorktreeStep(w, p, force, o) IN
         IF r.err # "nil" THEN r
         ELSE IF o.brdel /\ CanBranchDelete(r.w, bs)
              THEN [w |-> BranchDeleteEff(r.w, bs), err |-> "nil"]
              ELSE [w |-> r.w, err |-> "branch"]

\* ------------------------------------- Remove: the exact registered path
\* An absolute path is the sequence of its segments, so that one path string
\* ends with another exactly when its segments end with the other's.
HasSuffix(str, suffix) ==
    /\ Len(suffix) <= Len(str)
    /\ SubSeq(str, Len(str) - Len(suffix) + 1, Len(str)) = suffix

\* the paths of the worktrees of one repository
ListedPaths ==
    { <<"wt", "x">>, <<"private", "wt", "x">>, <<"backup", "wt", "x">>,
      <<"wt", "y">>, <<"x">> }

WorktreeLists == UNION { [1..n -> ListedPaths] : n \in 0..MaxListed }

\* the loop over git.ListWorktrees: the first listed path that ends with the
\* requested one, as <<path>>, or <<>> for the empty string
RECURSIVE SelectExactPath(_, _)
SelectExactPath(worktrees, worktreePath) ==
    IF worktrees = <<>> THEN <<>>
    ELSE IF HasSuffix(Head(worktrees), worktreePath) \/ Head(worktrees) = worktreePath
    THEN <<Head(worktrees)>>
    ELSE SelectExactPath(Tail(worktrees), worktreePath)

\* ------------------------------------------- arguments and branch names
\* A string is a sequence of characters; a URL is its scheme, its host as a
\* sequence of labels and its path as a sequence of segments (the path
\* trimmed of "/" and split at "/"), each segment a sequence of characters
\* or a word standing for its characters.
DigitChars == {"0", "5", "7"}

DigitVal(c) == IF c = "0" THEN 0 ELSE IF c = "5" THEN 5 ELSE 7

\* strconv.Atoi on a segment: <<n>> or <<>> when it is not a number
RECURSIVE AtoiDigits(_)
AtoiDigits(seg) ==
    IF seg = <<>> THEN 0
    ELSE 10 * AtoiDigits(SubSeq(seg, 1, Len(seg) - 1)) + DigitVal(seg[Len(seg)])

Atoi(seg) ==
    IF seg # <<>> /\ \A i \in 1..Len(seg) : seg[i] \in DigitChars
    THEN <<AtoiDigits(seg)>>
    ELSE <<>>

DecimalDigits == <<"0", "1", "2", "3", "4", "5", "6", "7", "8", "9">>

\* fmt.Sprintf("%d", n) for n >= 0
RECURSIVE FormatInt(_)
FormatInt(n) ==
    IF n < 10 THEN <<DecimalDigits[n + 1]>>
    ELSE Append(FormatInt(n \div 10), DecimalDigits[(n % 10) + 1])

Contains(str, sub) ==
    \E k \in 1..(Len(str) + 1) :
        k + Len(sub) - 1 <= Len(str) /\ SubSeq(str, k, k + Len(sub) - 1) = sub

Segments == { <<"o">>, <<"pull">>, <<"issues">>, <<"5">>, <<"0", "0", "7">> }

Hosts == { <<"github", "com">>, <<"gist", "github", "com">>, <<"example", "com">> }

Args ==
    [scheme : {"https", "http"}, host : Hosts,
     path : UNION { [1..n -> Segments] : n \in 0..MaxSegs }]

isGitHubURL(arg) == arg.scheme = "https" /\ Contains(arg.host, <<"github", "com">>)

NoInfo ==
    [err |-> "nil", type |-> "none", owner |-> <<>>, repo |-> <<>>,
     number |-> <<>>, worktreeName |-> <<>>, cloneURL |-> <<>>]

CloneURL(owner, repo) == <<"https://github.com/">> \o owner \o <<"/">> \o repo \o <<".git">>

parseGitHubURL_DefaultsToPR(arg) ==
    LET parts == arg.path IN
    IF Len(parts) < 4 THEN [NoInfo EXCEPT !.err = "format"]
    ELSE LET number == Atoi(parts[4]) IN
         IF number = <<>> THEN [NoInfo EXCEPT !.err = "number"]
         ELSE IF parts[3] = <<"issues">>
         THEN [NoInfo EXCEPT !.type = "issue", !.owner = parts[1], !.repo = parts[2],
                             !.number = number,
                             !.worktreeName = <<"issue_">> \o FormatInt(number[1]),
                             !.cloneURL = CloneURL(parts[1], parts[2])]
         ELSE [NoInfo EXCEPT !.type = "pr", !.owner = parts[1], !.repo = parts[2],
                             !.number = number,
                             !.worktreeName = <<"pr_">> \o FormatInt(number[1]),
                             !.cloneURL = CloneURL(parts[1], parts[2])]

parseGitHubURL(arg) ==
    LET parts == arg.path IN
    IF Len(parts) < 4 THEN [NoInfo EXCEPT !.err = "format"]
    ELSE LET number == Atoi(parts[4]) IN
         IF number = <<>> THEN [NoInfo EXCEPT !.err = "number"]
         ELSE IF parts[3] = <<"issues">>
         THEN [NoInfo EXCEPT !.type = "issue", !.owner = parts[1], !.repo = parts[2],
                             !.number = number,
                             !.worktreeName = <<"issue_">> \o FormatInt(number[1]),
                             !.cloneURL = CloneURL(parts[1], parts[2])]
         ELSE IF parts[3] = <<"pull">>
         THEN [NoInfo EXCEPT !.type = "pr", !.owner = parts[1], !.repo = parts[2],
                             !.number = number,
                             !.worktreeName = <<"pr_">> \o FormatInt(number[1]),
                             !.cloneURL = CloneURL(parts[1], parts[2])]
         ELSE [NoInfo EXCEPT !.err = "type"]

\* repoOk: repository.Current() succeeded
parseLocalName(arg, repoOk) ==
    IF ~repoOk THEN [NoInfo EXCEPT !.err = "norepo"]
    ELSE [NoInfo EXCEPT !.type = "local", !.owner = <<"o">>, !.repo = <<"r">>,
                        !.cloneURL = CloneURL(<<"o">>, <<"r">>)]

ParseArgument(arg, repoOk) ==
    IF isGitHubURL(arg) THEN parseGitHubURL(arg) ELSE parseLocalName(arg, repoOk)

\* the characters [a-zA-Z0-9_-] of the sample alphabet, and the others
ValidChars == {"a", "Z", "7", "_", "-"}

Chars == ValidChars \cup {"/", " ", "."}

Names == UNION { [1..n -> Chars] : n \in 0..MaxLen }

SanitizeBranchName_DropsInvalid(name) ==
    SelectSeq(name, LAMBDA c : c \in ValidChars)

SanitizeBranchName(name) ==
    [i \in 1..Len(name) |-> IF name[i] \in ValidChars THEN name[i] ELSE "_"]

\* ------------------------------------------------------------- variables
VARIABLES
    impl,            \* revision of the creation command: "creator" | "direct"
    type,            \* info.Type
    forceFlag,       \* --force
    useExistingFlag, \* --use-existing
    world,           \* filesystem and git state
    pre,             \* the world when the command was invoked
    pc,              \* position in the command
    createdDirs,     \* Creator.createdDirs
    createdBranches, \* Creator.createdBranches
    branchAction,    \* value returned by the branchCheck callback
    sig,             \* createWorktree's classification locals
    ret,             \* returned error: "none" while running, "nil", "err", "ErrCancelled"
    failedAt,        \* the step whose failure is returned
    rolledBack,      \* the rollback code has run
    cleanupErrs,     \* number of errors the rollback met
    joinedErrs,      \* number of rollback errors the returned error carries
    prompts,         \* prompts shown to the operator
    declined,        \* the operator answered no / cancel
    made,            \* directories and branches this invocation brought into existence
    warned,          \* warnings logged by the post-creation step
    act,             \* state of action.Execute
    api,             \* direct calls of worktree.Remove: count and last call
    input,           \* argument of a function applied on its own
    output,          \* its result
    trail,           \* the decisions and git / filesystem calls of a creation, in order
    procs            \* a second invocation of the command: which one is running,
                     \* and the locals of the one that is not

lifeVars == <<impl, type, forceFlag, useExistingFlag, world, pre, pc,
              createdDirs, createdBranches, branchAction, sig, ret, failedAt,
              rolledBack, cleanupErrs, joinedErrs, prompts, declined, made, warned,
              input, output, trail, procs>>
vars == <<lifeVars, act, api>>

NoSig ==
    [dir |-> FALSE, reg |-> FALSE, branch |-> FALSE, message |-> <<>>,
     done |-> <<>>]
NoAct ==
    [state |-> "idle", caller |-> "none", name |-> "", cliArgs |-> "",
     dir |-> <<>>, cmds |-> <<>>, runDir |-> <<>>, idx |-> 0, ran |-> <<>>,
     effects |-> {}, err |-> "nil", msg |-> <<>>, report |-> <<>>]
NoApi ==
    [calls |-> 0, before |-> <<>>, args |-> <<>>, err |-> "nil",
     prevArgs |-> <<>>, prevErr |-> "none"]

\* directories and branches a step brought into existence
Made(w2) ==
    [dirs |-> made.dirs \cup (w2.disk \ world.disk),
     branches |-> made.branches \cup (w2.branches \ world.branches)]

\* the locals of one invocation of the creation command
Locals ==
    [pc |-> pc, createdDirs |-> createdDirs, createdBranches |-> createdBranches,
     branchAction |-> branchAction, sig |-> sig, ret |-> ret,
     failedAt |-> failedAt, rolledBack |-> rolledBack,
     cleanupErrs |-> cleanupErrs, joinedErrs |-> joinedErrs,
     prompts |-> prompts, declined |-> declined, made |-> made,
     warned |-> warned, act |-> act, trail |-> trail]

\* "run": runRun on an existing worktree; "api": worktree.Remove called directly
Impls ==
    {"creator", "direct", "run", "api", "remove", "rm", "remove2", "render",
     "parse", "sanitize", "cleanup", "exact"}

InitWorldOK(i, t, w) ==
    /\ (i \notin {"creator"} => w.base /\ w.repo)
    /\ (i \in {"run", "render"} =>
           w.disk = {TargetPath} /\ w.reg = {TargetPath} /\ w.dirty = {})
    /\ (i \in {"parse", "sanitize", "exact"} =>
           w.disk = {} /\ w.reg = {} /\ w.branches = {})
    /\ (i = "cleanup" => w.dirty = {} /\ w.reg \subseteq w.disk)
    /\ (i \notin {"creator", "direct"} => t = "local")
    /\ (t = "local" => w.repo)
    /\ (w.repo => w.base)

\* the argument a function applied on its own is given
Recordings ==
    [dirs : UNION { [1..n -> Paths] : n \in 0..MaxRecorded },
     branches : UNION { [1..n -> Branches] : n \in 0..MaxRecorded }]

InputsOf(i) ==
    IF i = "parse" THEN Args
    ELSE IF i = "sanitize" THEN Names
    ELSE IF i = "cleanup" THEN Recordings
    ELSE IF i = "exact" THEN [worktreePath : ListedPaths, worktrees : WorktreeLists]
    ELSE {<<>>}

InitOf(impls) ==
    /\ impl \in impls
    /\ type \in Types
    /\ forceFlag \in BOOLEAN
    /\ useExistingFlag \in BOOLEAN
    /\ (impl # "creator" => ~useExistingFlag)
    /\ (impl \in {"run", "api", "render", "parse", "sanitize", "cleanup", "exact"} => ~forceFlag)
    /\ world \in Worlds
    /\ InitWorldOK(impl, type, world)
    /\ pre = world
    /\ pc = "start"
    /\ createdDirs = <<>>
    /\ createdBranches = <<>>
    /\ branchAction = "none"
    /\ sig = NoSig
    /\ ret = "none"
    /\ failedAt = "none"
    /\ rolledBack = FALSE
    /\ cleanupErrs = 0
    /\ joinedErrs = 0
    /\ prompts = 0
    /\ declined = FALSE
    /\ made = [dirs |-> {}, branches |-> {}]
    /\ warned = FALSE
    /\ act = NoAct
    /\ api = NoApi
    /\ input \in InputsOf(impl)
    /\ output = <<>>
    /\ trail = <<>>
    /\ procs = [cur |-> 1, saved |-> Locals]

\* the creation command, in both revisions
Init == InitOf({"creator", "direct"})

\* the run command on an existing worktree
InitRun == InitOf({"run"})

\* worktree.Remove called on any world, and the rm / remove command
InitRemove == InitOf({"api"} \cup {"remove", "rm", "remove2"})

\* a step that only moves on
Goto(l) ==
    /\ pc' = l
    /\ UNCHANGED <<impl, type, forceFlag, useExistingFlag, world, pre,
                   createdDirs, createdBranches, branchAction, sig, ret,
                   failedAt, rolledBack, cleanupErrs, joinedErrs, prompts, declined, made,
                   warned, act, api, input, output, trail, procs>>

\* a step that changes the world and moves on
Step(w2, l) ==
    /\ world' = w2
    /\ made' = Made(w2)
    /\ pc' = l

\* return err from the command without rollback
Return(w2, r, at) ==
    /\ Step(w2, "done")
    /\ ret' = r
    /\ failedAt' = at

\* setupWorktree returns an error: runCreate goes on to Cleanup
Fail(w2, r, at) ==
    /\ Step(w2, "rollback")
    /\ ret' = r
    /\ failedAt' = at

\* the steps es are added to the trail
Log(es) == trail' = trail \o es

fixed == <<impl, type, forceFlag, useExistingFlag, pre, input, output, procs>>

\* ------------------------------------------ "creator" revision: runCreate
\* runCreate: existing worktree directory (force / overwrite prompt / Remove)
RunCreateExisting ==
    /\ impl = "creator" /\ pc = "start"
    /\ UNCHANGED <<fixed, createdDirs, createdBranches, branchAction, sig,
                   rolledBack, cleanupErrs, joinedErrs, warned, act, api>>
    /\ IF ~Exists(world, TargetPath)
       THEN /\ Step(world, "mkdir")
            /\ UNCHANGED <<ret, failedAt, prompts, declined, trail>>
       ELSE \E ans \in (IF forceFlag THEN {"force"} ELSE {"yes", "no", "err"}),
               o \in RemoveOracles :
            /\ prompts' = IF forceFlag THEN prompts ELSE prompts + 1
            /\ declined' = (ans = "no")
            /\ Log((IF forceFlag THEN <<>> ELSE <<"confirm">>)
                   \o (IF ans \in {"force", "yes"} THEN <<"remove">> ELSE <<>>))
            /\ CASE ans = "err" -> Return(world, "err", "prompt")
                 [] ans = "no" -> Return(world, "nil", "none")
                 [] OTHER ->
                    LET r == Remove(world, TargetPath,
                                    GetCurrentBranch(world, TargetPath), TRUE, o)
                    IN IF r.err # "nil"
                       THEN Return(r.w, "err", "remove-existing")
                       ELSE /\ Step(r.w, "mkdir")
                            /\ UNCHANGED <<ret, failedAt>>

\* setupWorktree: os.MkdirAll(worktreeBase)
SetupMkdir ==
    /\ impl = "creator" /\ pc = "mkdir"
    /\ UNCHANGED <<fixed, createdDirs, createdBranches, branchAction, sig,
                   rolledBack, cleanupErrs, joinedErrs, prompts, declined, warned, act, api>>
    /\ Log(IF world.base THEN <<>> ELSE <<"mkdir">>)
    /\ \E ok \in BOOLEAN :
       IF ok \/ world.base
       THEN /\ Step([world EXCEPT !.base = TRUE], "clone")
            /\ UNCHANGED <<ret, failedAt>>
       ELSE Fail(world, "err", "mkdir")

\* setupWorktree: clone the bare repository and configure its remote
SetupClone ==
    /\ impl = "creator" /\ pc = "clone"
    /\ UNCHANGED <<fixed, createdDirs, createdBranches, branchAction, sig,
                   rolledBack, cleanupErrs, joinedErrs, prompts, declined, warned, act, api>>
    /\ IF type = "local" \/ world.repo
       THEN /\ Step(world, "exists")
            /\ UNCHANGED <<ret, failedAt, trail>>
       ELSE \E cloneOk \in BOOLEAN, cfgOk \in BOOLEAN :
            /\ Log(IF cloneOk THEN <<"clone", "remote">> ELSE <<"clone">>)
            /\ IF ~cloneOk THEN Fail(world, "err", "clone")
               ELSE IF ~cfgOk
                    THEN Fail([world EXCEPT !.repo = TRUE], "err", "remote")
                    ELSE /\ Step([world EXCEPT !.repo = TRUE], "exists")
                         /\ UNCHANGED <<ret, failedAt>>

\* setupWorktree: "worktree already exists"
SetupExistsCheck ==
    /\ impl = "creator" /\ pc = "exists"
    /\ UNCHANGED <<fixed, trail, createdDirs, createdBranches, branchAction, sig,
                   rolledBack, cleanupErrs, joinedErrs, prompts, declined, warned, act, api>>
    /\ IF Exists(world, TargetPath)
       THEN Fail(world, "err", "exists")
       ELSE /\ Step(world, "stale")
            /\ UNCHANGED <<ret, failedAt>>

\* setupWorktree: remove a stale worktree record
SetupStale ==
    /\ impl = "creator" /\ pc = "stale"
    /\ UNCHANGED <<fixed, createdDirs, createdBranches, branchAction, sig,
                   rolledBack, cleanupErrs, joinedErrs, prompts, declined, warned, act, api>>
    /\ Log(IF WorktreeIsRegistered(world, TargetPath) THEN <<"stale-remove">> ELSE <<>>)
    /\ IF ~WorktreeIsRegistered(world, TargetPath)
       THEN /\ Step(world, "check")
            /\ UNCHANGED <<ret, failedAt>>
       ELSE \E ok \in BOOLEAN :
            IF ok /\ CanWorktreeRemove(world, TargetPath, TRUE)
            THEN /\ Step(WorktreeRemoveEff(world, TargetPath), "check")
                 /\ UNCHANGED <<ret, failedAt>>
            ELSE Fail(world, "err", "stale")

\* the branchCheck callback of runCreate, and setupWorktree's switch on it
\* sel: the operator's selection, or "err" when the prompt fails
BranchCheckResult(w, sel, delOk) ==
    IF ~BranchExists(w, TargetBranch)
    THEN [w |-> w, action |-> "Overwrite", asked |-> FALSE]
    ELSE IF forceFlag
    THEN IF delOk /\ CanBranchDelete(w, <<TargetBranch>>)
         THEN [w |-> BranchDeleteEff(w, <<TargetBranch>>), action |-> "Overwrite", asked |-> FALSE]
         ELSE [w |-> w, action |-> "Cancel", asked |-> FALSE]
    ELSE IF useExistingFlag
    THEN [w |-> w, action |-> "Attach", asked |-> FALSE]
    ELSE IF sel = "err"
    THEN [w |-> w, action |-> "Cancel", asked |-> TRUE]
    ELSE IF sel = "Overwrite"
    THEN IF delOk /\ CanBranchDelete(w, <<TargetBranch>>)
         THEN [w |-> BranchDeleteEff(w, <<TargetBranch>>), action |-> "Overwrite", asked |-> TRUE]
         ELSE [w |-> w, action |-> "Cancel", asked |-> TRUE]
    ELSE [w |-> w, action |-> sel, asked |-> TRUE]

BranchCheck ==
    /\ impl = "creator" /\ pc = "check"
    /\ UNCHANGED <<fixed, createdDirs, createdBranches, sig,
                   rolledBack, cleanupErrs, joinedErrs, warned, act, api>>
    /\ \E sel \in {"Overwrite", "Attach", "Cancel", "err"}, delOk \in BOOLEAN :
       LET r == BranchCheckResult(world, sel, delOk) IN
       /\ branchAction' = r.action
       /\ prompts' = IF r.asked THEN prompts + 1 ELSE prompts
       /\ Log(<<"classify", "decide">>
              \o (IF BranchExists(world, TargetBranch)
                      /\ (forceFlag \/ (~useExistingFlag /\ sel = "Overwrite"))
                   THEN <<"delete-branch">> ELSE <<>>))
       /\ declined' = (declined \/ (r.asked /\ sel = "Cancel"))
       /\ CASE r.action = "Cancel" -> Fail(r.w, "ErrCancelled", "none")
            [] r.action = "Attach" ->
               /\ Step(r.w, "attach")
               /\ UNCHANGED <<ret, failedAt>>
            [] OTHER ->
               /\ Step(r.w, "track")
               /\ UNCHANGED <<ret, failedAt>>

Attach_RecordsBranch ==
    /\ impl = "creator" /\ pc = "attach"
    /\ createdBranches' = Append(createdBranches, TargetBranch)
    /\ UNCHANGED <<fixed, createdDirs, branchAction, sig,
                   rolledBack, cleanupErrs, joinedErrs, prompts, declined, warned, act, api>>
    /\ \E fetchOk \in BOOLEAN, o \in AddOutcomes :
       /\ Log((IF type = "pr" THEN <<"fetch">> ELSE <<>>)
              \o (IF type = "pr" /\ ~fetchOk THEN <<>> ELSE <<"add-branch">>))
       /\ IF type = "pr" /\ ~fetchOk
          THEN Fail(world, "err", "fetch")
          ELSE IF o = "ok" /\ CanWorktreeAddFromBranch(world, TargetBranch, TargetPath)
               THEN Return(WorktreeAddFromBranchEff(world, TargetBranch, TargetPath), "nil", "none")
               ELSE Fail(AddFailEff(world, TargetPath, o), "err", "attach")

\* setupWorktree, BranchActionAttach: fetch the PR ref, add from the existing branch
Attach ==
    /\ impl = "creator" /\ pc = "attach"
    /\ UNCHANGED <<fixed, createdDirs, createdBranches, branchAction, sig,
                   rolledBack, cleanupErrs, joinedErrs, prompts, declined, warned, act, api>>
    /\ \E fetchOk \in BOOLEAN, o \in AddOutcomes :
       /\ Log((IF type = "pr" THEN <<"fetch">> ELSE <<>>)
              \o (IF type = "pr" /\ ~fetchOk THEN <<>> ELSE <<"add-branch">>))
       /\ IF type = "pr" /\ ~fetchOk
          THEN Fail(world, "err", "fetch")
          ELSE IF o = "ok" /\ CanWorktreeAddFromBranch(world, TargetBranch, TargetPath)
               THEN Return(WorktreeAddFromBranchEff(world, TargetBranch, TargetPath), "nil", "none")
               ELSE Fail(AddFailEff(world, TargetPath, o), "err", "attach")

TrackDir_Forgotten ==
    /\ impl = "creator" /\ pc = "track"
    /\ createdDirs' = createdDirs
    /\ Log(<<"record-dir">>)
    /\ pc' = "add"
    /\ UNCHANGED <<fixed, world, createdBranches, branchAction, sig, ret,
                   failedAt, rolledBack, cleanupErrs, joinedErrs, prompts, declined, made,
                   warned, act, api>>

\* setupWorktree: c.createdDirs = append(c.createdDirs, worktreePath)
TrackDir ==
    /\ impl = "creator" /\ pc = "track"
    /\ createdDirs' = Append(createdDirs, TargetPath)
    /\ Log(<<"record-dir">>)
    /\ pc' = "add"
    /\ UNCHANGED <<fixed, world, createdBranches, branchAction, sig, ret,
                   failedAt, rolledBack, cleanupErrs, joinedErrs, prompts, declined, made,
                   warned, act, api>>

StartPointSteps_NoFetch(t) == <<"add-HEAD">>

\* the calls that add a worktree on a new branch: a PR fetches its ref and
\* branches from FETCH_HEAD, the others branch from HEAD
StartPointSteps(t) ==
    IF t = "pr" THEN <<"fetch", "add-FETCH_HEAD">> ELSE <<"add-HEAD">>

\* setupWorktree: (fetch the PR ref,) add the worktree with a new branch, record the branch
AddFresh ==
    /\ impl = "creator" /\ pc = "add"
    /\ UNCHANGED <<fixed, createdDirs, branchAction, sig,
                   rolledBack, cleanupErrs, joinedErrs, prompts, declined, warned, act, api>>
    /\ \E fetchOk \in BOOLEAN, o \in AddOutcomes :
       IF type = "pr" /\ ~fetchOk
       THEN /\ Fail(world, "err", "fetch")
            /\ Log(<<"fetch">>)
            /\ UNCHANGED createdBranches
       ELSE IF o = "ok" /\ CanWorktreeAdd(world, TargetBranch, TargetPath)
            THEN /\ Return(WorktreeAddEff(world, TargetBranch, TargetPath), "nil", "none")
                 /\ Log(StartPointSteps(type) \o <<"record-branch">>)
                 /\ createdBranches' = Append(createdBranches, TargetBranch)
            ELSE /\ Fail(AddFailEff(world, TargetPath, o), "err", "add")
                 /\ Log(StartPointSteps(type))
                 /\ UNCHANGED createdBranches

\* Creator.Cleanup: remove every recorded directory, then force-delete every
\* recorded branch, collecting the errors.
\* okDirs / okBrs: the paths / branches whose removal git and the OS let succeed
RECURSIVE CleanupDirs(_, _, _)
CleanupDirs(w, dirs, okDirs) ==
    IF dirs = <<>> THEN [w |-> w, errs |-> 0, tried |-> <<>>, failed |-> <<>>]
    ELSE LET d == Head(dirs)
             ok == RemoveAllOk(w, d, d \in okDirs)
             r == CleanupDirs(IF ok THEN RemoveAllEff(w, d) ELSE w, Tail(dirs), okDirs)
         IN [w |-> r.w, errs |-> r.errs + (IF ok THEN 0 ELSE 1),
             tried |-> <<d>> \o r.tried,
             failed |-> (IF ok THEN <<>> ELSE <<d>>) \o r.failed]

RECURSIVE CleanupBranches(_, _, _)
CleanupBranches(w, brs, okBrs) ==
    IF brs = <<>> THEN [w |-> w, errs |-> 0, tried |-> <<>>, failed |-> <<>>]
    ELSE LET b == Head(brs)
             ok == b \in okBrs /\ CanBranchDelete(w, <<b>>)
             r == CleanupBranches(IF ok THEN BranchDeleteEff(w, <<b>>) ELSE w, Tail(brs), okBrs)
         IN [w |-> r.w, errs |-> r.errs + (IF ok THEN 0 ELSE 1),
             tried |-> <<b>> \o r.tried,
             failed |-> (IF ok THEN <<>> ELSE <<b>>) \o r.failed]

JoinErrors_FirstOnly(dirErrs, branchErrs) ==
    IF dirErrs # <<>> THEN [dirs |-> <<dirErrs[1]>>, branches |-> <<>>]
    ELSE [dirs |-> <<>>, branches |-> branchErrs]

\* Cleanup: the error returned, errors.Join(errs...) of one error per failed
\* directory and per failed branch; nil is the join of nothing
JoinErrors(dirErrs, branchErrs) == [dirs |-> dirErrs, branches |-> branchErrs]

NilError == JoinErrors(<<>>, <<>>)

Cleanup_TargetBranchToo(w, dirs, brs, okDirs, okBrs) ==
    LET r1 == CleanupDirs(w, dirs, okDirs)
        r2 == CleanupBranches(r1.w, <<TargetBranch>>, {TargetBranch})
    IN [w |-> r2.w, errs |-> r1.errs + r2.errs,
        triedDirs |-> r1.tried, triedBranches |-> r2.tried,
        err |-> JoinErrors(r1.failed, r2.failed)]

Cleanup(w, dirs, brs, okDirs, okBrs) ==
    LET r1 == CleanupDirs(w, dirs, okDirs)
        r2 == CleanupBranches(r1.w, brs, okBrs)
    IN [w |-> r2.w, errs |-> r1.errs + r2.errs,
        triedDirs |-> r1.tried, triedBranches |-> r2.tried,
        err |-> JoinErrors(r1.failed, r2.failed)]

\* runCreate: creator.Cleanup(); return err -- and createWorktree:
\* os.RemoveAll(worktreePath); return err.  The result of the cleanup is
\* discarded: of its errs errors, the returned error carries none.
CarriedErrors(errs) == 0

\* runCreate: err = creator.Create(info); if err != nil { creator.Cleanup(); return err }
Rollback ==
    /\ impl = "creator" /\ pc = "rollback"
    /\ UNCHANGED <<fixed, createdDirs, createdBranches, branchAction, sig, ret,
                   failedAt, prompts, declined, warned, act, api>>
    /\ \E okDirs \in SUBSET {createdDirs[k] : k \in 1..Len(createdDirs)},
          okBrs \in SUBSET {createdBranches[k] : k \in 1..Len(createdBranches)} :
       LET r == Cleanup(world, createdDirs, createdBranches, okDirs, okBrs) IN
       /\ Step(r.w, "done")
       /\ Log(<<"rollback">>)
       /\ rolledBack' = TRUE
       /\ cleanupErrs' = r.errs
       /\ joinedErrs' = CarriedErrors(r.errs)

\* ------------------------------------- "direct" revision: createWorktree
\* createFromPR / createFromIssue / createFromLocal: a PR fetches its ref first
StartDirect ==
    /\ impl = "direct" /\ pc = "start"
    /\ UNCHANGED <<fixed, createdDirs, createdBranches, branchAction, sig,
                   rolledBack, cleanupErrs, joinedErrs, prompts, declined, warned, act, api>>
    /\ Log(IF type = "pr" THEN <<"fetch">> ELSE <<>>)
    /\ \E fetchOk \in BOOLEAN :
       IF type = "pr" /\ ~fetchOk
       THEN Return(world, "err", "fetch")
       ELSE /\ Step(world, "classify")
            /\ UNCHANGED <<ret, failedAt>>

\* createWorktree: the three existence checks
Signature(w) ==
    [dir |-> Exists(w, TargetPath),
     reg |-> WorktreeIsRegistered(w, TargetPath),
     branch |-> BranchExists(w, TargetBranch)]

HasConflict(g) == g.dir \/ g.reg \/ g.branch

\* createWorktree: the "This will:" message, one entry per line written;
\* path and branch are the names the line carries (<<>> when it carries none)
\* listOk: git.GetWorktreeInfo succeeded
Line(kind, path, branch) == [kind |-> kind, path |-> path, branch |-> branch]

BuildConflictMessage(w, g, listOk) ==
    LET currentBranch == IF g.reg THEN GetCurrentBranch(w, TargetPath) ELSE <<>>
        worktreeLines ==
            IF g.dir /\ g.reg THEN <<Line("remove-worktree", <<TargetPath>>, currentBranch)>>
            ELSE IF g.reg THEN <<Line("remove-stale-record", <<TargetPath>>, <<>>)>>
            ELSE IF g.dir THEN <<Line("remove-directory", <<TargetPath>>, <<>>)>>
            ELSE <<>>
        branchLines ==
            IF g.branch THEN <<Line("delete-branch", <<>>, <<TargetBranch>>)>> ELSE <<>>
        worktreeWarning ==
            IF g.dir /\ WorktreeIsRegistered(w, TargetPath)
                     /\ HasUncommittedChanges(w, TargetPath)
            THEN <<Line("warning-worktree", <<TargetPath>>, <<>>)>> ELSE <<>>
        branchWarning ==
            IF g.branch /\ listOk
                        /\ \E h \in w.head : h[2] = TargetBranch
                                              /\ HasUncommittedChanges(w, h[1])
            THEN <<Line("warning-branch", <<>>, <<TargetBranch>>)>> ELSE <<>>
    IN <<Line("target", <<>>, <<TargetBranch>>)>> \o worktreeLines \o branchLines
       \o <<Line("create", <<>>, <<TargetBranch>>)>>
       \o worktreeWarning \o branchWarning \o <<Line("overwrite?", <<>>, <<>>)>>

Classify ==
    /\ impl = "direct" /\ pc = "classify"
    /\ \E listOk \in BOOLEAN :
          sig' = [dir |-> Signature(world).dir, reg |-> Signature(world).reg,
                  branch |-> Signature(world).branch,
                  message |-> IF HasConflict(Signature(world))
                              THEN BuildConflictMessage(world, Signature(world), listOk)
                              ELSE <<>>,
                  done |-> <<>>]
    /\ pc' = IF HasConflict(Signature(world)) THEN "prompt" ELSE "create"
    /\ Log(<<"classify">>)
    /\ UNCHANGED <<fixed, world, createdDirs, createdBranches, branchAction,
                   ret, failedAt, rolledBack, cleanupErrs, joinedErrs, prompts, declined,
                   made, warned, act, api>>

Confirm_AlwaysAsks ==
    /\ impl = "direct" /\ pc = "prompt"
    /\ UNCHANGED <<fixed, createdDirs, createdBranches, branchAction, sig,
                   rolledBack, cleanupErrs, joinedErrs, warned, act, api>>
    /\ Log(<<"decide">>)
    /\ \E ans \in {"yes", "no", "err"} :
            /\ prompts' = prompts + 1
            /\ declined' = (ans = "no")
            /\ CASE ans = "err" -> Return(world, "err", "prompt")
                 [] ans = "no" -> Return(world, "nil", "none")
                 [] OTHER -> /\ Step(world, "cleanup")
                             /\ UNCHANGED <<ret, failedAt>>

\* createWorktree: the overwrite confirmation, skipped with --force
Confirm ==
    /\ impl = "direct" /\ pc = "prompt"
    /\ UNCHANGED <<fixed, createdDirs, createdBranches, branchAction, sig,
                   rolledBack, cleanupErrs, joinedErrs, warned, act, api>>
    /\ Log(<<"decide">>)
    /\ IF forceFlag
       THEN /\ Step(world, "cleanup")
            /\ UNCHANGED <<ret, failedAt, prompts, declined>>
       ELSE \E ans \in {"yes", "no", "err"} :
            /\ prompts' = prompts + 1
            /\ declined' = (ans = "no")
            /\ CASE ans = "err" -> Return(world, "err", "prompt")
                 [] ans = "no" -> Return(world, "nil", "none")
                 [] OTHER -> /\ Step(world, "cleanup")
                             /\ UNCHANGED <<ret, failedAt>>

CleanupWorktree_PrunesRegistered(w, g, ok) ==
    IF g.reg
    THEN IF ok /\ w.repo
         THEN [w |-> WorktreePruneEff(w), err |-> "nil", steps |-> <<"prune">>]
         ELSE [w |-> w, err |-> "err", steps |-> <<>>]
    ELSE IF g.dir
    THEN IF RemoveAllOk(w, TargetPath, ok)
         THEN [w |-> RemoveAllEff(w, TargetPath), err |-> "nil", steps |-> <<"remove-directory">>]
         ELSE [w |-> w, err |-> "err", steps |-> <<>>]
    ELSE [w |-> w, err |-> "nil", steps |-> <<>>]

\* createWorktree: cleanup of what the classification found;
\* steps: the cleanup calls that were made and succeeded
CleanupWorktree(w, g, ok) ==
    IF g.dir /\ g.reg
    THEN IF ok /\ CanWorktreeRemove(w, TargetPath, TRUE)
         THEN [w |-> WorktreeRemoveEff(w, TargetPath), err |-> "nil", steps |-> <<"worktree-remove">>]
         ELSE [w |-> w, err |-> "err", steps |-> <<>>]
    ELSE IF g.dir
    THEN IF RemoveAllOk(w, TargetPath, ok)
         THEN [w |-> RemoveAllEff(w, TargetPath), err |-> "nil", steps |-> <<"remove-directory">>]
         ELSE [w |-> w, err |-> "err", steps |-> <<>>]
    ELSE IF g.reg
    THEN IF ok /\ w.repo
         THEN [w |-> WorktreePruneEff(w), err |-> "nil", steps |-> <<"prune">>]
         ELSE [w |-> w, err |-> "err", steps |-> <<>>]
    ELSE [w |-> w, err |-> "nil", steps |-> <<>>]

PerformCleanup(w, g, ok1, ok2) ==
    LET r == CleanupWorktree(w, g, ok1) IN
    IF r.err # "nil" THEN r
    ELSE IF ~g.branch THEN r
    ELSE IF ok2 /\ CanBranchDelete(r.w, <<TargetBranch>>)
         THEN [w |-> BranchDeleteEff(r.w, <<TargetBranch>>), err |-> "nil",
               steps |-> Append(r.steps, "delete-branch")]
         ELSE [w |-> r.w, err |-> "err", steps |-> r.steps]

DoCleanup ==
    /\ impl = "direct" /\ pc = "cleanup"
    /\ UNCHANGED <<fixed, createdDirs, createdBranches, branchAction,
                   rolledBack, cleanupErrs, joinedErrs, prompts, declined, warned, act, api>>
    /\ \E ok1 \in BOOLEAN, ok2 \in BOOLEAN :
       LET r == PerformCleanup(world, sig, ok1, ok2) IN
       /\ sig' = [sig EXCEPT !.done = r.steps]
       /\ Log(<<"cleanup">>)
       /\ IF r.err # "nil"
          THEN Return(r.w, "err", "cleanup")
          ELSE /\ Step(r.w, "create")
               /\ UNCHANGED <<ret, failedAt>>

\* worktree.Create(worktreePath, branch, startPoint): add the worktree on a new branch
Create(w, p, b, o) ==
    IF o = "ok" /\ CanWorktreeAdd(w, b, p)
    THEN [w |-> WorktreeAddEff(w, b, p), err |-> "nil"]
    ELSE [w |-> AddFailEff(w, p, o), err |-> "err"]

CreateDirect ==
    /\ impl = "direct" /\ pc = "create"
    /\ UNCHANGED <<fixed, createdDirs, createdBranches, branchAction, sig,
                   rolledBack, cleanupErrs, joinedErrs, prompts, declined, warned, act, api>>
    /\ \E o \in AddOutcomes :
       LET r == Create(world, TargetPath, TargetBranch, o) IN
       /\ Log(IF type = "pr" THEN <<"add-FETCH_HEAD">> ELSE <<"add-HEAD">>)
       /\ IF r.err # "nil"
          THEN /\ Step(r.w, "rollback")
               /\ ret' = "err"
               /\ failedAt' = "add"
          ELSE /\ Step(r.w, "post")
               /\ UNCHANGED <<ret, failedAt>>

SimpleCleanup_Skipped(w, ok) == [w |-> w, errs |-> 0]

\* createWorktree: if worktree.Exists(worktreePath) { os.RemoveAll(worktreePath) }
SimpleCleanup(w, ok) ==
    IF Exists(w, TargetPath) /\ ok
    THEN [w |-> RemoveAllEff(w, TargetPath), errs |-> 0]
    ELSE [w |-> w, errs |-> IF Exists(w, TargetPath) THEN 1 ELSE 0]

RollbackDirect ==
    /\ impl = "direct" /\ pc = "rollback"
    /\ UNCHANGED <<fixed, createdDirs, createdBranches, branchAction, sig, ret,
                   failedAt, prompts, declined, warned, act, api>>
    /\ \E ok \in BOOLEAN :
       LET r == SimpleCleanup(world, ok) IN
       /\ Step(r.w, "done")
       /\ Log(<<"rollback">>)
       /\ rolledBack' = TRUE
       /\ cleanupErrs' = r.errs
       /\ joinedErrs' = CarriedErrors(r.errs)

\* ------------------------------------------- two invocations interleaved
\* Two processes run the creation command for the same request on the same
\* repository; the operating system runs one of them at a time.  The step
\* hands the processor to the other invocation.
Switch ==
    /\ impl \in {"creator", "direct"}
    /\ procs.saved.pc # "done"
    /\ procs' = [cur |-> 3 - procs.cur, saved |-> Locals]
    /\ pc' = procs.saved.pc
    /\ createdDirs' = procs.saved.createdDirs
    /\ createdBranches' = procs.saved.createdBranches
    /\ branchAction' = procs.saved.branchAction
    /\ sig' = procs.saved.sig
    /\ ret' = procs.saved.ret
    /\ failedAt' = procs.saved.failedAt
    /\ rolledBack' = procs.saved.rolledBack
    /\ cleanupErrs' = procs.saved.cleanupErrs
    /\ joinedErrs' = procs.saved.joinedErrs
    /\ prompts' = procs.saved.prompts
    /\ declined' = procs.saved.declined
    /\ made' = procs.saved.made
    /\ warned' = procs.saved.warned
    /\ act' = procs.saved.act
    /\ trail' = procs.saved.trail
    /\ UNCHANGED <<impl, type, forceFlag, useExistingFlag, pre, input, output,
                   world, api>>

\* ---------------------------------------------------------- action engine
\* A template is a sequence of tokens: literal text, a {{.Variable}} reference,
\* or malformed template text.
Lit(s) == <<"lit", s>>
Ref(s) == <<"var", s>>
Malformed == <<"bad", "{{">>

\* the fields of the data struct handed to the templates: the seven named
\* fields, the embedded *worktree.WorktreeInfo (a field of that name) and the
\* fields it promotes
Data(name, cliArgs) ==
    [f \in {"WorktreePath", "WorktreeName", "Action", "CLI_ARGS", "OS", "ARCH",
            "ROOT_DIR", "WorktreeInfo",
            "Type", "Owner", "Repo", "Number", "BranchName"} |->
        CASE f = "WorktreePath" -> "/wt/r/pr_1"
          [] f = "WorktreeName" -> "pr_1"
          [] f = "Action" -> name
          [] f = "CLI_ARGS" -> cliArgs
          [] f = "OS" -> "linux"
          [] f = "ARCH" -> "amd64"
          [] f = "ROOT_DIR" -> "/src/r"
          [] f = "Type" -> "pr"
          [] f = "Owner" -> "o"
          [] f = "Repo" -> "r"
          [] f = "Number" -> "1"
          [] f = "WorktreeInfo" -> "{pr o r 1 feature-x pr_1}"
          [] OTHER -> "feature-x"]

Render_MissingIsEmpty(t, data) ==
    IF \E i \in 1..Len(t) : t[i][1] = "bad"
    THEN [err |-> "parse", text |-> <<>>]
    ELSE [err |-> "nil",
          text |-> [i \in 1..Len(t) |->
                      IF t[i][1] = "lit" THEN t[i][2]
                      ELSE IF t[i][2] \in DOMAIN data THEN data[t[i][2]]
                      ELSE "<no value>"]]

\* template.New(..).Parse(t) followed by tmpl.Execute(.., data)
Render(t, data) ==
    IF \E i \in 1..Len(t) : t[i][1] = "bad"
    THEN [err |-> "parse", text |-> <<>>]
    ELSE IF \E i \in 1..Len(t) : t[i][1] = "var" /\ t[i][2] \notin DOMAIN data
    THEN [err |-> "render", text |-> <<>>]
    ELSE [err |-> "nil",
          text |-> [i \in 1..Len(t) |->
                      IF t[i][1] = "lit" THEN t[i][2] ELSE data[t[i][2]]]]

\* the configuration holds one action, "deploy"
ConfiguredAction == "deploy"
ActionNames == {"deploy", "ghost"}
CmdTemplates ==
    { <<Lit("make")>>, <<Lit("tmux"), Ref("Action")>>,
      <<Lit("echo"), Ref("Nope")>>, <<Malformed>> }
DirTemplates == { <<>>, <<Ref("ROOT_DIR")>>, <<Ref("Nope")>> }
CmdLists == UNION { [1..n -> CmdTemplates] : n \in 0..MaxCmds }

ErrorText_NoCommand(kind, text) ==
    CASE kind = "notfound" -> <<"action", text[1], "not found in config">>
      [] kind = "command" -> <<"command failed">>
      [] OTHER -> <<kind>>

\* the texts of the errors Execute returns
ErrorText(kind, text) ==
    CASE kind = "notfound" -> <<"action", text[1], "not found in config">>
      [] kind = "gitroot" -> <<"failed to get git root directory">>
      [] kind = "dirparse" -> <<"failed to parse action directory template">>
      [] kind = "dirrender" -> <<"failed to render action directory template">>
      [] kind = "parse" -> <<"failed to parse command template">>
      [] kind = "render" -> <<"failed to render command template">>
      [] kind = "command" -> <<"command">> \o text \o <<"failed">>
      [] OTHER -> <<>>

Returned(a, kind, text) ==
    [a EXCEPT !.state = "returned", !.err = kind, !.msg = ErrorText(kind, text)]

\* the caller's call of action.Execute
StartExecute(caller, name, cliArgs, dir, cmds) ==
    [NoAct EXCEPT !.state = "start", !.caller = caller, !.name = name,
                  !.cliArgs = cliArgs, !.dir = dir, !.cmds = cmds]

ExecuteLookup_FallsBack(a, rootOk) ==
    IF ~rootOk THEN Returned(a, "gitroot", <<>>)
    ELSE IF a.dir = <<>>
    THEN [a EXCEPT !.state = "running", !.idx = 1,
                   !.runDir = <<Data(a.name, a.cliArgs)["WorktreePath"]>>]
    ELSE LET r == Render(a.dir, Data(a.name, a.cliArgs)) IN
         IF r.err # "nil" THEN Returned(a, IF r.err = "parse" THEN "dirparse" ELSE "dirrender", <<>>)
         ELSE [a EXCEPT !.state = "running", !.idx = 1, !.runDir = r.text]

\* Execute: look the action up, get the git root, render the directory
ExecuteLookup(a, rootOk) ==
    IF a.name # ConfiguredAction THEN Returned(a, "notfound", <<a.name>>)
    ELSE IF ~rootOk THEN Returned(a, "gitroot", <<>>)
    ELSE IF a.dir = <<>>
    THEN [a EXCEPT !.state = "running", !.idx = 1,
                   !.runDir = <<Data(a.name, a.cliArgs)["WorktreePath"]>>]
    ELSE LET r == Render(a.dir, Data(a.name, a.cliArgs)) IN
         IF r.err # "nil" THEN Returned(a, IF r.err = "parse" THEN "dirparse" ELSE "dirrender", <<>>)
         ELSE [a EXCEPT !.state = "running", !.idx = 1, !.runDir = r.text]

ExecuteCmd_KeepsGoing(a, runOk) ==
    LET r == Render(a.cmds[a.idx], Data(a.name, a.cliArgs)) IN
    IF r.err # "nil" THEN Returned(a, r.err, <<>>)
    ELSE [a EXCEPT !.ran = Append(@, [i |-> a.idx, text |-> r.text, ok |-> runOk]),
                   !.idx = @ + 1,
                   !.effects = IF runOk THEN @ \cup {a.idx} ELSE @]

\* Execute: one iteration of the loop over action.Cmds
ExecuteCmd(a, runOk) ==
    LET r == Render(a.cmds[a.idx], Data(a.name, a.cliArgs)) IN
    IF r.err # "nil" THEN Returned(a, r.err, <<>>)
    ELSE LET a2 == [a EXCEPT !.ran = Append(@, [i |-> a.idx, text |-> r.text, ok |-> runOk])]
         IN IF runOk
            THEN [a2 EXCEPT !.idx = @ + 1, !.effects = @ \cup {a.idx}]
            ELSE Returned(a2, "command", r.text)

ExecStart ==
    /\ act.state = "start"
    /\ \E rootOk \in BOOLEAN : act' = ExecuteLookup(act, rootOk)
    /\ UNCHANGED <<lifeVars, api>>

ExecCmd ==
    /\ act.state = "running" /\ act.idx <= Len(act.cmds)
    /\ \E runOk \in BOOLEAN : act' = ExecuteCmd(act, runOk)
    /\ UNCHANGED <<lifeVars, api>>

\* Execute: "Action finished successfully."
ExecDone ==
    /\ act.state = "running" /\ act.idx > Len(act.cmds)
    /\ act' = Returned(act, "nil", <<>>)
    /\ UNCHANGED <<lifeVars, api>>

\* what the command line (actionFlag, cliArgs) and the configured action
\* (dir, cmds) can hold; without --action the configuration is not read
Invocations ==
    { i \in [actionFlag : {""} \cup ActionNames, cliArgs : {"", "ls"},
             dir : DirTemplates, cmds : CmdLists] :
        i.actionFlag = "" => i.dir = <<>> /\ i.cmds = <<>> }

\* the configurations explored after a creation: an action without commands,
\* with one, with two, and with one whose template does not render (Execute
\* is explored in full under SpecAction)
PostCmdLists ==
    { <<>>, << <<Lit("make")>> >>, << <<Lit("make")>>, <<Lit("make")>> >>,
      << <<Lit("make")>>, <<Lit("echo"), Ref("Nope")>> >> }

PostInvocations ==
    { i \in [actionFlag : {""} \cup ActionNames, cliArgs : {"", "ls"},
             dir : {<<>>}, cmds : PostCmdLists] :
        /\ (i.actionFlag = "" => i.cmds = <<>>)
        /\ (i.actionFlag # "" => i.cliArgs = "") }

\* createWorktree after printSuccess: run the action or the post-"--" command;
\* a failure is only warned about
PostCreation ==
    /\ impl = "direct" /\ pc = "post"
    /\ UNCHANGED <<trail, fixed, world, createdDirs, createdBranches, branchAction,
                   sig, failedAt, rolledBack, cleanupErrs, joinedErrs, prompts, declined,
                   made, api>>
    /\ \E i \in PostInvocations, runOk \in BOOLEAN :
       IF i.actionFlag # ""
       THEN /\ act' = StartExecute("create", i.actionFlag, i.cliArgs, i.dir, i.cmds)
            /\ pc' = "exec"
            /\ UNCHANGED <<ret, warned>>
       ELSE /\ warned' = (i.cliArgs # "" /\ ~runOk)
            /\ act' = [act EXCEPT !.cliArgs = i.cliArgs]
            /\ ret' = "nil"
            /\ pc' = "done"

PostReturn_Propagates ==
    /\ impl = "direct" /\ pc = "exec" /\ act.state = "returned"
    /\ warned' = (act.err # "nil")
    /\ act' = [act EXCEPT !.state = "reported",
                          !.report = IF act.err = "nil" THEN <<>>
                                     ELSE <<"Action", act.name, "failed">> \o act.msg]
    /\ ret' = IF act.err = "nil" THEN "nil" ELSE "err"
    /\ pc' = "done"
    /\ UNCHANGED <<trail, fixed, world, createdDirs, createdBranches, branchAction,
                   sig, failedAt, rolledBack, cleanupErrs, joinedErrs, prompts, declined,
                   made, api>>

\* createWorktree: Log.Warnf("Action '%s' failed: %v"); return nil
PostReturn ==
    /\ impl = "direct" /\ pc = "exec" /\ act.state = "returned"
    /\ warned' = (act.err # "nil")
    /\ act' = [act EXCEPT !.state = "reported",
                          !.report = IF act.err = "nil" THEN <<>>
                                     ELSE <<"Action", act.name, "failed">> \o act.msg]
    /\ ret' = "nil"
    /\ pc' = "done"
    /\ UNCHANGED <<trail, fixed, world, createdDirs, createdBranches, branchAction,
                   sig, failedAt, rolledBack, cleanupErrs, joinedErrs, prompts, declined,
                   made, api>>

\* runRun: run an action or a command in an existing worktree
RunStart ==
    /\ impl = "run" /\ pc = "start"
    /\ UNCHANGED <<trail, fixed, world, createdDirs, createdBranches, branchAction,
                   sig, rolledBack, cleanupErrs, joinedErrs, prompts, declined, made,
                   warned, api>>
    /\ \E i \in Invocations, runOk \in BOOLEAN :
       IF i.actionFlag # ""
       THEN /\ act' = StartExecute("run", i.actionFlag, i.cliArgs, i.dir, i.cmds)
            /\ pc' = "exec"
            /\ UNCHANGED <<ret, failedAt>>
       ELSE /\ act' = [act EXCEPT !.cliArgs = i.cliArgs,
                          !.report = IF i.cliArgs # "" /\ ~runOk
                                     THEN <<"command", i.cliArgs, "failed">>
                                     ELSE <<>>]
            /\ ret' = IF i.cliArgs # "" /\ ~runOk THEN "err" ELSE "nil"
            /\ failedAt' = IF i.cliArgs # "" /\ ~runOk THEN "command" ELSE "none"
            /\ pc' = "done"

\* runRun: return fmt.Errorf("action '%s' failed: %w", actionName, err)
RunReturn ==
    /\ impl = "run" /\ pc = "exec" /\ act.state = "returned"
    /\ act' = [act EXCEPT !.state = "reported",
                          !.report = IF act.err = "nil" THEN <<>>
                                     ELSE <<"action", act.name, "failed">> \o act.msg]
    /\ ret' = IF act.err = "nil" THEN "nil" ELSE "err"
    /\ failedAt' = IF act.err = "nil" THEN "none" ELSE "action"
    /\ pc' = "done"
    /\ UNCHANGED <<trail, fixed, world, createdDirs, createdBranches, branchAction,
                   sig, rolledBack, cleanupErrs, joinedErrs, prompts, declined, made,
                   warned, api>>

\* ------------------------------------------------ rendering one template
\* the variables the README documents for action templates
FixedVariables ==
    {"WorktreePath", "WorktreeName", "BranchName", "Action", "CLI_ARGS", "OS",
     "ARCH", "ROOT_DIR", "Type", "Owner", "Repo", "Number"}

\* names a template may reference: the documented ones and others
ReferencedNames == FixedVariables \cup {"WorktreeInfo", "Nope", "worktreePath"}

Tokens == {Lit("x"), Malformed} \cup {Ref(v) : v \in ReferencedNames}

Templates == UNION { [1..n -> Tokens] : n \in 0..MaxTokens }

\* Execute's parse-and-render of one template with a fully populated context
RenderTemplate ==
    /\ impl = "render" /\ pc = "start"
    /\ \E t \in Templates :
       LET r == Render(t, Data(ConfiguredAction, "ls")) IN
       act' = [act EXCEPT !.state = "rendered", !.name = ConfiguredAction,
                          !.cliArgs = "ls", !.cmds = <<t>>,
                          !.err = r.err, !.msg = r.text]
    /\ pc' = "done"
    /\ UNCHANGED <<trail, fixed, world, createdDirs, createdBranches, branchAction,
                   sig, ret, failedAt, rolledBack, cleanupErrs, joinedErrs, prompts,
                   declined, made, warned, api>>

\* ------------------------------------ ParseArgument, SanitizeBranchName
ApplyParseArgument ==
    /\ impl = "parse" /\ pc = "start"
    /\ \E repoOk \in BOOLEAN : output' = ParseArgument(input, repoOk)
    /\ pc' = "done"
    /\ UNCHANGED <<trail, procs, impl, type, forceFlag, useExistingFlag, pre,
                   input, world,
                   createdDirs, createdBranches, branchAction, sig, ret,
                   failedAt, rolledBack, cleanupErrs, joinedErrs, prompts, declined, made,
                   warned, act, api>>

\* SanitizeBranchName applied once and applied to its own result
ApplySanitize ==
    /\ impl = "sanitize" /\ pc = "start"
    /\ output' = [once |-> SanitizeBranchName(input),
                  twice |-> SanitizeBranchName(SanitizeBranchName(input))]
    /\ pc' = "done"
    /\ UNCHANGED <<trail, procs, impl, type, forceFlag, useExistingFlag, pre,
                   input, world,
                   createdDirs, createdBranches, branchAction, sig, ret,
                   failedAt, rolledBack, cleanupErrs, joinedErrs, prompts, declined, made,
                   warned, act, api>>

\* Remove's search for the exact path, for a requested path and a list
ApplySelectExactPath ==
    /\ impl = "exact" /\ pc = "start"
    /\ output' = SelectExactPath(input.worktrees, input.worktreePath)
    /\ pc' = "done"
    /\ UNCHANGED <<impl, type, forceFlag, useExistingFlag, pre, input, world,
                   createdDirs, createdBranches, branchAction, sig, ret,
                   failedAt, rolledBack, cleanupErrs, joinedErrs, prompts,
                   declined, made, warned, act, api, trail, procs>>

\* --------------------------------------------- Creator.Cleanup on its own
\* Cleanup called on a Creator that holds any recorded directories and branches
ApplyCleanup ==
    /\ impl = "cleanup" /\ pc = "start"
    /\ \E okDirs \in SUBSET Paths, okBrs \in SUBSET Branches :
       LET r == Cleanup(world, input.dirs, input.branches, okDirs, okBrs) IN
       /\ world' = r.w
       /\ output' = [err |-> r.err, triedDirs |-> r.triedDirs,
                     triedBranches |-> r.triedBranches,
                     okDirs |-> okDirs, okBrs |-> okBrs]
    /\ pc' = "done"
    /\ UNCHANGED <<impl, type, forceFlag, useExistingFlag, pre, input,
                   createdDirs, createdBranches, branchAction, sig, ret,
                   failedAt, rolledBack, cleanupErrs, joinedErrs, prompts,
                   declined, made, warned, act, api, trail, procs>>

\* ------------------------------------------- worktree.Remove called directly
ApiRemove ==
    /\ impl = "api" /\ pc = "start" /\ api.calls < MaxCalls
    /\ \E bs \in {<<>>} \cup {<<b>> : b \in Branches}, force \in BOOLEAN,
          o \in RemoveOracles :
       LET r == Remove(world, TargetPath, bs, force, o) IN
       /\ world' = r.w
       /\ made' = Made(r.w)
       /\ api' = [calls |-> api.calls + 1, before |-> <<world>>,
                  args |-> <<bs, force>>, err |-> r.err,
                  prevArgs |-> api.args, prevErr |-> api.err]
    /\ UNCHANGED <<trail, fixed, pc, createdDirs, createdBranches, branchAction, sig,
                   ret, failedAt, rolledBack, cleanupErrs, joinedErrs, prompts, declined,
                   warned, act>>

\* ------------------------------------------------- the rm / remove command
\* "remove"  : runRemove of cmd/remove.go, built on worktree.Remove
\* "rm"      : runRm, which removes the worktree and then deletes the branch,
\*             only warning when the branch cannot be deleted
\* "remove2" : the runRemove that returns an error when the branch cannot be
\*             deleted
RmImpls == {"remove", "rm", "remove2"}

\* worktree.Remove(worktreePath, force): the worktree only, no branch
RemovePath(w, p, force, o) ==
    IF ~force /\ HasUncommittedChanges(w, p)
    THEN [w |-> w, err |-> "dirty"]
    ELSE RemoveWorktreeStep(w, p, force, o)

\* the command found its worktree: FindByName looks in git's records, the
\* other two look on disk
RmFound(w) ==
    IF impl = "rm" THEN WorktreeIsRegistered(w, TargetPath)
    ELSE Exists(w, TargetPath)

\* up to the call of Remove: find the worktree, read its branch, ask about
\* uncommitted changes
RmPrepare ==
    /\ impl \in RmImpls /\ pc = "start"
    /\ UNCHANGED <<trail, fixed, createdDirs, createdBranches, branchAction, sig,
                   rolledBack, cleanupErrs, joinedErrs, warned, act>>
    /\ \E findOk \in BOOLEAN, brOk \in BOOLEAN, ans \in {"yes", "no", "err"} :
       LET bs == IF brOk THEN GetCurrentBranch(world, TargetPath) ELSE <<>>
           ask == ~forceFlag /\ HasUncommittedChanges(world, TargetPath)
           go(force) ==
               /\ Step(world, "rmcall")
               /\ api' = [api EXCEPT !.args = <<bs, force>>]
               /\ UNCHANGED <<ret, failedAt>>
       IN
       IF ~findOk
       THEN /\ Return(world, "err", "find")
            /\ UNCHANGED <<prompts, declined, api>>
       ELSE IF ~RmFound(world)
       THEN /\ Return(world, "nil", "none")
            /\ UNCHANGED <<prompts, declined, api>>
       ELSE IF impl = "remove" /\ ~brOk
       THEN /\ Return(world, "err", "branchname")
            /\ UNCHANGED <<prompts, declined, api>>
       ELSE IF ~ask
       THEN /\ go(forceFlag)
            /\ UNCHANGED <<prompts, declined>>
       ELSE /\ prompts' = prompts + 1
            /\ declined' = (ans = "no")
            /\ CASE ans = "err" -> Return(world, "err", "prompt") /\ UNCHANGED api
                 [] ans = "no" -> Return(world, "nil", "none") /\ UNCHANGED api
                 [] OTHER -> go(TRUE)

\* the call of worktree.Remove
RmCall ==
    /\ impl \in RmImpls /\ pc = "rmcall"
    /\ UNCHANGED <<trail, fixed, createdDirs, createdBranches, branchAction, sig,
                   rolledBack, cleanupErrs, joinedErrs, prompts, declined, warned, act>>
    /\ \E o \in RemoveOracles :
       LET bs == api.args[1]
           force == api.args[2]
           r == IF impl = "remove" THEN Remove(world, TargetPath, bs, force, o)
                ELSE RemovePath(world, TargetPath, force, o)
       IN
       /\ api' = [calls |-> api.calls + 1, before |-> <<world>>,
                  args |-> api.args, err |-> r.err,
                  prevArgs |-> api.args, prevErr |-> api.err]
       /\ IF r.err # "nil"
          THEN Return(r.w, "err", IF r.err = "branch" THEN "branch" ELSE "remove")
          ELSE IF impl = "remove" \/ bs = <<>>
          THEN Return(r.w, "nil", "none")
          ELSE /\ Step(r.w, "rmbranch")
               /\ UNCHANGED <<ret, failedAt>>

RmBranch_RollsBack ==
    /\ impl \in {"rm", "remove2"} /\ pc = "rmbranch"
    /\ UNCHANGED <<trail, fixed, createdDirs, createdBranches, branchAction, sig,
                   rolledBack, cleanupErrs, joinedErrs, prompts, declined, act>>
    /\ \E ok \in BOOLEAN :
       IF ok /\ CanBranchDelete(world, api.args[1])
       THEN /\ Return(BranchDeleteEff(world, api.args[1]), "nil", "none")
            /\ UNCHANGED <<warned, api>>
       ELSE /\ api' = [api EXCEPT !.err = "branch"]
            /\ IF impl = "rm"
               THEN Return(api.before[1], "nil", "none") /\ warned' = TRUE
               ELSE Return(api.before[1], "err", "branch") /\ UNCHANGED warned

\* runRm / runRemove: git.BranchDelete(branch, true) after the removal
RmBranch ==
    /\ impl \in {"rm", "remove2"} /\ pc = "rmbranch"
    /\ UNCHANGED <<trail, fixed, createdDirs, createdBranches, branchAction, sig,
                   rolledBack, cleanupErrs, joinedErrs, prompts, declined, act>>
    /\ \E ok \in BOOLEAN :
       IF ok /\ CanBranchDelete(world, api.args[1])
       THEN /\ Return(BranchDeleteEff(world, api.args[1]), "nil", "none")
            /\ UNCHANGED <<warned, api>>
       ELSE /\ api' = [api EXCEPT !.err = "branch"]
            /\ IF impl = "rm"
               THEN Return(world, "nil", "none") /\ warned' = TRUE
               ELSE Return(world, "err", "branch") /\ UNCHANGED warned


\* ------------------------------------------------------------ specification
Next ==
    \/ RunCreateExisting \/ SetupMkdir \/ SetupClone \/ SetupExistsCheck
    \/ SetupStale \/ BranchCheck \/ Attach \/ TrackDir \/ AddFresh \/ Rollback
    \/ StartDirect \/ Classify \/ Confirm \/ DoCleanup \/ CreateDirect
    \/ RollbackDirect \/ PostCreation \/ PostReturn
    \/ ExecStart \/ ExecCmd \/ ExecDone

Spec == Init /\ [][Next]_vars

NextAction == RunStart \/ ExecStart \/ ExecCmd \/ ExecDone \/ RunReturn

SpecAction == InitRun /\ [][NextAction]_vars

NextRemove == ApiRemove \/ RmPrepare \/ RmCall \/ RmBranch

SpecRemove == InitRemove /\ [][NextRemove]_vars

\* one template rendered on its own
InitRender == InitOf({"render"})

NextRender == RenderTemplate

SpecRender == InitRender /\ [][NextRender]_vars

\* ParseArgument applied to every argument
InitParse == InitOf({"parse"})

NextParse == ApplyParseArgument

SpecParse == InitParse /\ [][NextParse]_vars

\* SanitizeBranchName applied to every name
InitSanitize == InitOf({"sanitize"})

NextSanitize == ApplySanitize

SpecSanitize == InitSanitize /\ [][NextSanitize]_vars

\* Remove's exact-path search applied to every requested path and list
InitExact == InitOf({"exact"})

NextExact == ApplySelectExactPath

SpecExact == InitExact /\ [][NextExact]_vars

\* Creator.Cleanup applied to every recording
InitCleanup == InitOf({"cleanup"})

NextCleanup == ApplyCleanup

SpecCleanup == InitCleanup /\ [][NextCleanup]_vars

\* two creations of the same target running interleaved, in a repository
\* that has no worktree and no branch yet
InitRace ==
    /\ InitOf({"creator", "direct"})
    /\ world.disk = {} /\ world.reg = {} /\ world.branches = {}

NextRace == Next \/ Switch

SpecRace == InitRace /\ [][NextRace]_vars

\* creation and removal together
InitLifecycle == InitOf({"creator", "direct"} \cup RmImpls)

NextLifecycle == Next \/ RmPrepare \/ RmCall \/ RmBranch

SpecLifecycle == InitLifecycle /\ [][NextLifecycle]_vars

TypeOK ==
    /\ impl \in Impls /\ type \in Types
    /\ WorldOK(world)
    /\ ret \in {"none", "nil", "err", "ErrCancelled"}
    /\ Len(createdDirs) <= 1 /\ Len(createdBranches) <= 1

\* ------------------------------------------------------------------ claims
Creating == impl \in {"creator", "direct"}
Finished == pc = "done"
Succeeded == Finished /\ ret = "nil" /\ ~declined
Failed == Finished /\ ret = "err"
TargetGone(w) ==
    /\ TargetPath \notin w.disk
    /\ TargetPath \notin w.reg
    /\ TargetBranch \notin w.branches

\* C1: a creation request whose target directory, worktree record and branch
\* are all absent is never answered by a prompt, and when it succeeds the
\* Creator's transaction holds exactly the target path and the target branch.
C1_NoConflictNoPrompt ==
    (Creating /\ ~HasConflict(Signature(pre))) =>
        /\ prompts = 0
        /\ (Succeeded /\ impl = "creator" =>
               /\ createdDirs = <<TargetPath>>
               /\ createdBranches = <<TargetBranch>>)

C1_Witness ==
    /\ impl = "creator" /\ Succeeded /\ ~HasConflict(Signature(pre))
    /\ createdDirs = <<TargetPath>> /\ TargetPath \in world.reg

C3_FailedCreationRestoresState ==
    (Creating /\ Failed /\ rolledBack) => world = pre

\* C4: the rollback removes no directory and deletes no branch that existed
\* before the invocation and was not created by this invocation.
C4_RollbackOnlyOwn ==
    [][(Creating /\ pc = "rollback") =>
          /\ \A p \in world.disk \ world'.disk :
                ~(p \in pre.disk /\ p \notin made.dirs)
          /\ \A b \in world.branches \ world'.branches :
                ~(b \in pre.branches /\ b \notin made.branches)]_vars

C4_Witness ==
    /\ Creating /\ Finished /\ rolledBack
    /\ TargetPath \in made.dirs /\ TargetPath \notin world.disk
    /\ pre.disk # {} /\ pre.disk \subseteq world.disk
    /\ pre.branches # {} /\ pre.branches \subseteq world.branches

\* C5: when the operator declines a prompt, the conflict signature of the
\* target after the command equals the one before it.
C5_DeclineMutatesNothing ==
    (Creating /\ Finished /\ declined) => Signature(world) = Signature(pre)

\* C6: a lifecycle command ends as success, cancelled or failed, and a
\* cancellation by the operator is a non-error return that runs no rollback.
C6_CancelIsNotAnError ==
    (Creating /\ Finished) =>
        /\ ret \in {"nil", "err", "ErrCancelled"}
        /\ (declined => ret = "nil" /\ ~rolledBack)

\* C7: when the action or the post-"--" command of a creation fails, the new
\* worktree stays as created, nothing is rolled back, the failure is only
\* warned about and the command returns success.
C7_ActionFailureKeepsWorktree ==
    (impl = "direct" /\ (act.err # "nil" \/ warned)) =>
        /\ TargetPath \in world.disk /\ TargetPath \in world.reg
        /\ <<TargetPath, TargetBranch>> \in world.head
        /\ ~rolledBack
        /\ (Finished => ret = "nil" /\ warned)

C7_Witness ==
    /\ impl = "direct" /\ Finished /\ warned /\ act.err = "command"
    /\ ret = "nil" /\ TargetPath \in world.disk

\* C8: the commands of an action run one at a time in declared order, a
\* command runs only after all earlier ones succeeded, nothing runs after a
\* failure, and the effects of the earlier commands stay.
C8_SequentialFailFast ==
    /\ \A j \in 1..Len(act.ran) :
          /\ act.ran[j].i = j
          /\ (j < Len(act.ran) => act.ran[j].ok)
    /\ act.effects = {j \in 1..Len(act.ran) : act.ran[j].ok}
    /\ (act.err = "command" =>
          /\ ~act.ran[Len(act.ran)].ok
          /\ act.idx = Len(act.ran))

C8_Witness ==
    /\ act.err = "command" /\ Len(act.cmds) = 3 /\ Len(act.ran) = 2
    /\ act.effects = {1}

HasWord(msg, word) == \E k \in 1..Len(msg) : msg[k] = word
HasText(msg, text) ==
    \E k \in 1..Len(msg) :
        k + Len(text) - 1 <= Len(msg) /\ SubSeq(msg, k, k + Len(text) - 1) = text
FailedText == act.ran[Len(act.ran)].text

\* C9 as stated: the error Execute returns for a failing command names the
\* action and carries the rendered command text.
C9_ErrorNamesActionAndCommand ==
    act.err = "command" =>
        HasWord(act.msg, act.name) /\ HasText(act.msg, FailedText)

\* C9 amended: the error Execute returns carries the rendered command text;
\* the action name is in the error runRun returns, which wraps it.
C9_ErrorNamesCommandCallerNamesAction ==
    act.err = "command" =>
        /\ HasText(act.msg, FailedText)
        /\ (act.state = "reported" =>
               /\ HasWord(act.report, act.name)
               /\ HasText(act.report, FailedText)
               /\ ret = "err")

C9_Witness ==
    /\ impl = "run" /\ act.state = "reported" /\ act.err = "command"
    /\ FailedText = <<"make">> /\ ~HasWord(act.msg, act.name)

\* C10: worktree.Remove repeated with the same arguments after it succeeded
\* (the path is then neither on disk nor registered) returns success and
\* changes nothing.
C10_RemoveIdempotent ==
    (/\ impl = "api" /\ api.calls >= 2
     /\ api.prevErr = "nil" /\ api.args = api.prevArgs
     /\ TargetPath \notin api.before[1].disk
     /\ TargetPath \notin api.before[1].reg) =>
        api.err = "nil" /\ world = api.before[1]

\* C11: worktree.Remove without force on a worktree with uncommitted changes
\* returns the dirty-worktree error and changes nothing; after the operator
\* answers yes to the rm command's dirty prompt the removal is called with
\* force and does not fail on the dirty check.
C11_DirtyRemoveFailsBeforeMutation ==
    /\ (/\ api.calls > 0 /\ ~api.args[2]
        /\ TargetPath \in api.before[1].dirty) =>
           api.err = "dirty" /\ world = api.before[1]
    /\ (/\ impl \in RmImpls /\ prompts > 0 /\ ~declined
        /\ pc # "start" /\ failedAt # "prompt") =>
           api.args[2] /\ api.err # "dirty"

C11_Witness ==
    /\ impl = "api" /\ api.calls > 0 /\ ~api.args[2]
    /\ TargetPath \in api.before[1].dirty
    /\ api.err = "dirty" /\ TargetPath \in world.disk

\* C12: when the worktree was removed and the deletion of its branch then
\* fails, the worktree stays removed, nothing is restored, and the failure is
\* reported as a branch-deletion failure, not as a removal failure.
C12_BranchFailureKeepsRemoval ==
    (api.calls > 0 /\ api.err = "branch") =>
        /\ TargetPath \notin world.disk
        /\ world.disk = api.before[1].disk \ {TargetPath}
        /\ world.reg \subseteq api.before[1].reg
        /\ world.branches = api.before[1].branches
        /\ (impl \in {"remove", "remove2"} /\ Finished =>
               ret = "err" /\ failedAt = "branch")
        /\ (impl = "rm" /\ Finished => ret = "nil" /\ warned)

C12_Witness ==
    /\ impl = "remove" /\ Finished /\ api.err = "branch"
    /\ TargetPath \in api.before[1].disk /\ TargetPath \notin world.disk
    /\ failedAt = "branch"

C14_WarningNamesOtherPath ==
    (/\ impl = "direct" /\ ~forceFlag /\ prompts > 0) =>
        \A p \in Paths \ {TargetPath} :
            (<<p, TargetBranch>> \in pre.head /\ p \in pre.dirty) =>
                \E k \in 1..Len(sig.message) :
                    /\ sig.message[k].kind \in {"warning-worktree", "warning-branch"}
                    /\ sig.message[k].path = <<p>>

\* C15: once the decision for the existing branch is Attach, no branch is
\* deleted or created, no created branch is recorded, the target branch is
\* the one that existed before, and a success has the worktree added on that
\* existing branch.
C15_AttachReusesBranch ==
    /\ [](branchAction = "Attach" =>
            /\ createdBranches = <<>>
            /\ TargetBranch \in pre.branches
            /\ TargetBranch \in world.branches
            /\ TargetBranch \notin made.branches
            /\ (Finished /\ ~rolledBack =>
                   /\ ret = "nil"
                   /\ TargetPath \in world.reg
                   /\ <<TargetPath, TargetBranch>> \in world.head))
    /\ [][branchAction = "Attach" => world'.branches = world.branches]_vars

C15_Witness ==
    /\ impl = "creator" /\ branchAction = "Attach" /\ Succeeded
    /\ <<TargetPath, TargetBranch>> \in world.head
    /\ createdBranches = <<>> /\ world.branches = pre.branches

\* C16: a template whose references all lie in the documented variable set
\* renders without error, and a template that references any other name
\* fails to render.
C16_OnlyFixedVariablesRender ==
    (impl = "render" /\ pc = "done") =>
        LET t == act.cmds[1]
            wellFormed == \A i \in 1..Len(t) : t[i][1] # "bad"
            refs == {t[i][2] : i \in {j \in 1..Len(t) : t[j][1] = "var"}}
        IN /\ (wellFormed /\ refs \subseteq FixedVariables => act.err = "nil")
           /\ (~(refs \subseteq FixedVariables) => act.err # "nil")

\* C17: when the named action is not in the configuration, Execute returns
\* the not-found error, which names the action, and has rendered no template
\* and run no command of the configured action.
C17_UnknownActionRunsNothing ==
    (act.name # ConfiguredAction /\ act.state \in {"running", "returned", "reported"}) =>
        /\ act.err = "notfound"
        /\ HasWord(act.msg, act.name)
        /\ act.runDir = <<>> /\ act.idx = 0
        /\ act.ran = <<>> /\ act.effects = {}

C17_Witness ==
    /\ impl = "run" /\ act.state = "reported" /\ act.err = "notfound"
    /\ act.name = "ghost" /\ act.cmds # <<>> /\ act.dir # <<>>
    /\ ret = "err"

\* C18 as stated: for an https github.com URL, ParseArgument returns the PR
\* (Issue) request with owner, repo, number, name and clone URL when the path
\* is exactly owner/repo/pull/n (owner/repo/issues/n), and an error for every
\* other path.
IsItemPath(path, kind) ==
    Len(path) >= 4 /\ path[3] = <<kind>> /\ Atoi(path[4]) # <<>>

ExpectedInfo(path, itemType, prefix) ==
    [err |-> "nil", type |-> itemType, owner |-> path[1], repo |-> path[2],
     number |-> Atoi(path[4]),
     worktreeName |-> <<prefix>> \o FormatInt(Atoi(path[4])[1]),
     cloneURL |-> <<"https://github.com/">> \o path[1] \o <<"/">> \o path[2] \o <<".git">>]

ParsedGitHubURL ==
    /\ impl = "parse" /\ pc = "done"
    /\ input.scheme = "https" /\ input.host = <<"github", "com">>

C18_ExactPathsParseOthersFail ==
    ParsedGitHubURL =>
        LET p == input.path
            pr == IsItemPath(p, "pull") /\ Len(p) = 4
            issue == IsItemPath(p, "issues") /\ Len(p) = 4
        IN /\ (pr => output = ExpectedInfo(p, "pr", "pr_"))
           /\ (issue => output = ExpectedInfo(p, "issue", "issue_"))
           /\ (~pr /\ ~issue => output.err # "nil")

\* C18 amended: the request is returned whenever the first four segments are
\* owner/repo/pull/n or owner/repo/issues/n, further segments being ignored;
\* every other path is an error.
C18_LeadingSegmentsParseOthersFail ==
    ParsedGitHubURL =>
        LET p == input.path
            pr == IsItemPath(p, "pull")
            issue == IsItemPath(p, "issues")
        IN /\ (pr => output = ExpectedInfo(p, "pr", "pr_"))
           /\ (issue => output = ExpectedInfo(p, "issue", "issue_"))
           /\ (~pr /\ ~issue => output.err # "nil")

C18_Witness ==
    /\ ParsedGitHubURL /\ Len(input.path) = 5
    /\ input.path[4] = <<"0", "0", "7">>
    /\ output.type = "pr" /\ output.number = <<7>>
    /\ output.worktreeName = <<"pr_", "7">>

\* C19: SanitizeBranchName replaces each character outside [a-zA-Z0-9_-] by
\* "_" and keeps every other character and the length; it is the identity on
\* valid names, the empty one included, and applying it twice equals
\* applying it once.
C19_SanitizeReplacesInvalidOnly ==
    (impl = "sanitize" /\ pc = "done") =>
        /\ Len(output.once) = Len(input)
        /\ \A i \in 1..Len(input) :
              output.once[i] = (IF input[i] \in ValidChars THEN input[i] ELSE "_")
        /\ ((\A i \in 1..Len(input) : input[i] \in ValidChars) => output.once = input)
        /\ output.twice = output.once

C19_Witness ==
    /\ impl = "sanitize" /\ pc = "done"
    /\ input = <<"a", "/", "7">> /\ output.once = <<"a", "_", "7">>

\* C20: the cleanup steps carried out after the operator accepted are the
\* steps the message listed, in its order: a directory that is registered is
\* removed through git, a record without directory is pruned, a directory
\* without record is removed directly, an existing branch is deleted, and a
\* signature bit that is false causes no step.
PlanStep(kind) ==
    CASE kind = "remove-worktree" -> "worktree-remove"
      [] kind = "remove-stale-record" -> "prune"
      [] kind = "remove-directory" -> "remove-directory"
      [] OTHER -> "delete-branch"

PlanLines ==
    SelectSeq(sig.message,
              LAMBDA l : l.kind \in {"remove-worktree", "remove-stale-record",
                                     "remove-directory", "delete-branch"})

Plan == [k \in 1..Len(PlanLines) |-> PlanStep(PlanLines[k].kind)]

IsStep(step) == \E k \in 1..Len(sig.done) : sig.done[k] = step

CleanupCompleted ==
    \/ pc \notin {"start", "classify", "prompt", "cleanup", "done"}
    \/ Finished /\ ~declined /\ failedAt \notin {"cleanup", "prompt"}

C20_CleanupFollowsPlan ==
    (impl = "direct" /\ HasConflict(sig)) =>
        /\ Len(sig.done) <= Len(Plan)
        /\ sig.done = SubSeq(Plan, 1, Len(sig.done))
        /\ (CleanupCompleted => sig.done = Plan)
        /\ (sig.dir /\ sig.reg =>
               /\ Plan[1] = "worktree-remove"
               /\ ~IsStep("remove-directory") /\ ~IsStep("prune"))
        /\ (~sig.dir /\ sig.reg =>
               /\ Plan[1] = "prune"
               /\ ~IsStep("worktree-remove") /\ ~IsStep("remove-directory"))
        /\ (sig.dir /\ ~sig.reg =>
               /\ Plan[1] = "remove-directory"
               /\ ~IsStep("worktree-remove") /\ ~IsStep("prune"))
        /\ (~sig.dir /\ ~sig.reg => Plan = <<"delete-branch">>)
        /\ (sig.branch <=> Plan[Len(Plan)] = "delete-branch")
        /\ (~sig.branch => ~IsStep("delete-branch"))

C20_Witness ==
    /\ impl = "direct" /\ ~forceFlag /\ prompts = 1 /\ pc = "create"
    /\ sig.dir /\ sig.reg /\ sig.branch
    /\ sig.done = <<"worktree-remove", "delete-branch">>
    /\ TargetGone(world)

\* C21: on the Attach path the transaction records the target directory as
\* created and no branch, and the rollback that follows a failed attach
\* removes the directory the attach left behind.
C21_AttachRecordsDirectory ==
    (impl = "creator" /\ branchAction = "Attach" /\ failedAt = "attach") =>
        /\ createdDirs = <<TargetPath>>
        /\ createdBranches = <<>>
        /\ (rolledBack /\ cleanupErrs = 0 => TargetPath \notin world.disk)

\* C22: for a pull request every worktree-add, on the fresh path and on the
\* Attach path, comes after the fetch of the PR ref; the fresh path branches
\* from FETCH_HEAD; and when the fetch fails no worktree-add is invoked and
\* the creation fails.
AddSteps == {"add-FETCH_HEAD", "add-HEAD", "add-branch"}

InTrail(step) == \E k \in 1..Len(trail) : trail[k] = step

C22_FetchBeforeAdd ==
    (Creating /\ type = "pr") =>
        /\ \A k \in 1..Len(trail) :
              trail[k] \in AddSteps => \E j \in 1..(k - 1) : trail[j] = "fetch"
        /\ ~InTrail("add-HEAD")
        /\ (InTrail("add-branch") => branchAction = "Attach")
        /\ (branchAction = "Attach" => ~InTrail("add-FETCH_HEAD"))
        /\ (failedAt = "fetch" =>
               /\ \A s \in AddSteps : ~InTrail(s)
               /\ ret = "err"
               /\ TargetPath \notin (world.reg \ pre.reg))
        /\ (Succeeded /\ branchAction # "Attach" =>
               InTrail("add-FETCH_HEAD") /\ TargetBranch \in made.branches)

C22_Witness ==
    /\ impl = "creator" /\ type = "pr" /\ branchAction = "Attach" /\ Succeeded
    /\ InTrail("fetch") /\ trail[Len(trail)] = "add-branch"
    /\ TargetPath \in world.reg

\* C23: within one creation no mutating step (creating the repository
\* directory, cloning, configuring the remote, removing a stale record,
\* fetching, removing a worktree or directory, deleting a branch, adding a
\* worktree) comes before the conflict classification, nor, when there is a
\* conflict, before the overwrite / attach / cancel decision.
MutatingSteps ==
    {"mkdir", "clone", "remote", "stale-remove", "fetch", "remove",
     "delete-branch", "cleanup"} \cup AddSteps

C23_ClassifyDecideThenMutate ==
    Creating =>
        \A k \in 1..Len(trail) :
            trail[k] \in MutatingSteps =>
                /\ \E j \in 1..(k - 1) : trail[j] = "classify"
                /\ (HasConflict(Signature(pre)) =>
                       \E j \in 1..(k - 1) : trail[j] = "decide")

\* C24: at every point of a Creator transaction each worktree directory and
\* each branch this invocation brought into existence is in createdDirs /
\* createdBranches, the target path being recorded before the worktree-add
\* is invoked, so that no rollback misses a created resource.
Recorded(list, x) == \E k \in 1..Len(list) : list[k] = x

C24_CreatedResourcesRecorded ==
    impl = "creator" =>
        /\ \A p \in made.dirs : Recorded(createdDirs, p)
        /\ \A b \in made.branches : Recorded(createdBranches, b)
        /\ \A k \in 1..Len(trail) :
              trail[k] \in AddSteps =>
                 \E j \in 1..(k - 1) : trail[j] = "record-dir"

\* C25: when a creation fails and its rollback fails for some resource, the
\* command still returns the error that triggered the rollback, and that
\* error carries every failure the rollback met.
C25_RollbackErrorsJoined ==
    (Creating /\ Finished /\ rolledBack) =>
        /\ ret \in {"err", "ErrCancelled"}
        /\ failedAt \notin {"rollback", "cleanup"}
        /\ joinedErrs = cleanupErrs

\* C26: Cleanup tries every recorded directory, in order, and then every
\* recorded branch, in order, whatever failed before; every attempt that can
\* succeed takes effect; and it returns nil exactly when every attempt
\* succeeded, otherwise one error joining the failure of each attempt that
\* failed.
FailedEntries(list, Fails(_)) ==
    LET ks == SelectSeq([k \in 1..Len(list) |-> k], Fails)
    IN [n \in 1..Len(ks) |-> list[ks[n]]]

Other == procs.saved

C27_RollbackSparesOtherInvocation ==
    [][(/\ Creating /\ pc = "rollback" /\ failedAt \in {"add", "attach"}
        /\ Other.failedAt = "none") =>
          /\ \A p \in world.disk \ world'.disk :
                ~(p \in Other.made.dirs /\ p \notin made.dirs)
          /\ \A b \in world.branches \ world'.branches :
                ~(b \in Other.made.branches /\ b \notin made.branches)]_vars

\* C28: the registered path Remove selects for git worktree remove denotes
\* the worktree that was requested, never another worktree whose path ends
\* with the requested path.  (/private is a link to /: /private/wt/x and
\* /wt/x are one worktree; /backup/wt/x is another one.)
RealPath(path) == IF path # <<>> /\ Head(path) = "private" THEN Tail(path) ELSE path

SameWorktree(a, b) == RealPath(a) = RealPath(b)

C28_SelectsOwnRecordOnly ==
    (impl = "exact" /\ pc = "done" /\ output # <<>>) =>
        SameWorktree(output[1], input.worktreePath)

\* C29: whenever worktree.Remove returns success the worktree path is
\* neither on disk nor in git's worktree list, also when git worktree remove
\* failed or found no registered path and the directory was deleted directly.
C29_SuccessMeansGone ==
    (api.calls > 0 /\ api.err = "nil") =>
        /\ TargetPath \notin world.disk
        /\ TargetPath \notin world.reg

\* a command template that text/template rejects: malformed text, or a
\* reference to a name the data of this invocation does not have
Faulty(t) ==
    \E i \in 1..Len(t) :
        \/ t[i] = Malformed
        \/ t[i][1] = "var" /\ t[i][2] \notin DOMAIN Data(act.name, act.cliArgs)

TemplateError == act.state = "returned" /\ act.err \in {"parse", "render"}

\* C30 as stated: when a command template fails to parse or render, Execute
\* returns the template error and no command of the action has been executed,
\* wherever the faulty template stands in the list.
C30_TemplateErrorRunsNothing ==
    TemplateError => act.ran = <<>> /\ act.effects = {}

\* C30: a faulty command template is never executed, and when Execute returns
\* a template error it stands at the first faulty template of the list: that
\* command and the later ones have not run, while every command before it has
\* been executed successfully and keeps its effects.
C30_TemplateErrorStopsAtFaultyCommand ==
    /\ \A j \in 1..Len(act.ran) : ~Faulty(act.cmds[act.ran[j].i])
    /\ TemplateError =>
          /\ act.idx \in 1..Len(act.cmds)
          /\ Faulty(act.cmds[act.idx])
          /\ \A j \in 1..(act.idx - 1) : ~Faulty(act.cmds[j])
          /\ Len(act.ran) = act.idx - 1
          /\ \A j \in 1..Len(act.ran) : act.ran[j].i = j /\ act.ran[j].ok
          /\ act.effects = 1..(act.idx - 1)

C30_Witness ==
    /\ TemplateError /\ act.err = "render"
    /\ Len(act.cmds) = 3 /\ act.idx = 3
    /\ Len(act.ran) = 2 /\ act.effects = {1, 2}

====
